---- MODULE Spec2Model ----
(***************************************************************************)
(* GNJ Saturn Peripheral Scanner (GNJ_SaturnPeripheralScanner.py).         *)
(*                                                                         *)
(* The model covers scan_file and what it calls: detect_raw_mode,          *)
(* read_sector_data, find_saturn_header, extract_peripheral_codes,         *)
(* extract_game_info and ScanResult.get_human_readable_peripherals.        *)
(*                                                                         *)
(* Representation.                                                         *)
(*  - A byte is an integer 0..255.                                         *)
(*  - A `bytes` object that is a whole file or read buffer is a record     *)
(*    [len, fill, patches]: len bytes, every byte equal to fill except     *)
(*    where a patch [at, bytes] overwrites it (a later patch wins).        *)
(*    ByteAt gives the byte at a 0-based index.  The program's constants   *)
(*    (2048, 2352, 16, 256, 65536) keep their real values.                 *)
(*  - A slice of the buffer is a view [buf, lo, hi] of it; a slice of the   *)
(*    header is a sequence of bytes, element i being Python's index i-1.   *)
(*  - A Python str is a sequence of code points.  Text rendered for the    *)
(*    report (the catalog names, "Unknown(c)") is a TLA+ string.           *)
(*  - Optional[bytes] is [some, bytes]; None is [some |-> FALSE].          *)
(***************************************************************************)
EXTENDS Integers, Sequences, FiniteSets, TLC

VARIABLES
    pc,              \* position in scan_file / find_saturn_header
    file,            \* the file's content, as scan_file finds it on disk
    caller,          \* "scan_file", or "direct" for a call of find_saturn_header
    read_size,       \* how many leading bytes of the file the buffer holds
    is_raw,          \* find_saturn_header's local is_raw
    inspected,       \* how many leading bytes detect_raw_mode compared
    ret,             \* find_saturn_header's return value (header, is_raw)
    result,          \* the ScanResult
    descriptions     \* get_human_readable_peripherals' return value

vars == <<pc, file, caller, read_size, is_raw, inspected, ret, result,
          descriptions>>

Min(a, b) == IF a < b THEN a ELSE b
Max(a, b) == IF a < b THEN b ELSE a

\* The smallest element of a non-empty set of integers.
SetMin(S) == CHOOSE x \in S : \A y \in S : x <= y

---------------------------------------------------------------------------
(* Constants of the program.                                               *)

\* b'SEGA SEGASATURN '
SATURN_MAGIC == <<83, 69, 71, 65, 32, 83, 69, 71, 65, 83, 65, 84, 85, 82, 78, 32>>

OFFSET_PRODUCT_NUM == 32
OFFSET_VERSION == 42
OFFSET_AREA_CODES == 64
OFFSET_PERIPHERAL == 80
OFFSET_GAME_TITLE == 96

SECTOR_SIZE_MODE1 == 2048
SECTOR_SIZE_RAW == 2352
RAW_SECTOR_DATA_OFFSET == 16

\* bytes([0x00] + [0xFF] * 10 + [0x00])
sync_pattern == <<0, 255, 255, 255, 255, 255, 255, 255, 255, 255, 255, 0>>

\* range(16) in find_saturn_header's loops.
SCAN_SECTORS == 16
\* sector_data[:256]
HEADER_SIZE == 256
\* sector_data[:16]
MAGIC_SIZE == 16
\* data[:12] in detect_raw_mode.
SYNC_SIZE == 12
\* len(data) < 16 in detect_raw_mode.
MIN_DETECT_LEN == 16
\* min(file_size, 65536) in scan_file.
READ_CAP == 65536

---------------------------------------------------------------------------
(* Python's bytes and slices.                                              *)

\* The byte at index i as the patches 1..p leave it: that of the last patch
\* that covers i, the fill byte if none does.
RECURSIVE PatchedByte(_, _, _)
PatchedByte(f, i, p) ==
    IF p = 0
    THEN f.fill
    ELSE IF /\ f.patches[p].at <= i
            /\ i < f.patches[p].at + Len(f.patches[p].bytes)
         THEN f.patches[p].bytes[i - f.patches[p].at + 1]
         ELSE PatchedByte(f, i, p - 1)

\* data[i] for 0 <= i < len(data).
ByteAt(f, i) == PatchedByte(f, i, Len(f.patches))

\* data[a:b] for 0 <= a <= b, as a view of the buffer: the bytes of index
\* lo..hi-1, both ends clamped to len(data).  bytes is immutable, so the
\* view and Python's copy hold the same bytes.
PySlice(f, a, b) ==
    [buf |-> f, lo |-> Min(a, f.len), hi |-> Min(Max(a, b), f.len)]

\* len(v) of a view.
ViewLen(v) == v.hi - v.lo

\* v[:n] of a view.
ViewTake(v, n) == [v EXCEPT !.hi = Min(v.lo + n, v.hi)]

\* The bytes of a view, as a sequence.
Bytes(v) == [i \in 1..ViewLen(v) |-> ByteAt(v.buf, v.lo + i - 1)]

\* len(s) of a sequence of bytes or characters.
SeqLen(s) == Cardinality(DOMAIN s)

\* s[a:a+n] of a sequence s (0-based a), clamped to len(s).
Sub(s, a, n) ==
    LET lo == Min(a, SeqLen(s))
        hi == Min(a + n, SeqLen(s))
    IN  [i \in 1..(hi - lo) |-> s[lo + i]]

None == [some |-> FALSE]
Some(b) == [some |-> TRUE, bytes |-> b]

\* Python's truth value of an Optional[bytes]: None and b'' are false.
Truthy(o) == o.some /\ ViewLen(o.bytes) > 0

---------------------------------------------------------------------------
(* read_sector_data, detect_raw_mode.                                      *)

\* Mutant: the bounds check rejects a window that ends exactly at the end of
\* the buffer.
read_sector_data_off_by_one(d, sec, raw_mode) ==
    LET offset == IF raw_mode
                  THEN sec * SECTOR_SIZE_RAW + RAW_SECTOR_DATA_OFFSET
                  ELSE sec * SECTOR_SIZE_MODE1
    IN  IF offset + SECTOR_SIZE_MODE1 >= d.len
        THEN None
        ELSE Some(PySlice(d, offset, offset + SECTOR_SIZE_MODE1))

\* Mutant: no bounds check, the slice is whatever the buffer still holds.
read_sector_data_unchecked(d, sec, raw_mode) ==
    LET offset == IF raw_mode
                  THEN sec * SECTOR_SIZE_RAW + RAW_SECTOR_DATA_OFFSET
                  ELSE sec * SECTOR_SIZE_MODE1
    IN  Some(PySlice(d, offset, offset + SECTOR_SIZE_MODE1))

read_sector_data(d, sec, raw_mode) ==
    IF raw_mode
    THEN LET offset == sec * SECTOR_SIZE_RAW + RAW_SECTOR_DATA_OFFSET
         IN  IF offset + SECTOR_SIZE_MODE1 > d.len
             THEN None
             ELSE Some(PySlice(d, offset, offset + SECTOR_SIZE_MODE1))
    ELSE LET offset == sec * SECTOR_SIZE_MODE1
         IN  IF offset + SECTOR_SIZE_MODE1 > d.len
             THEN None
             ELSE Some(PySlice(d, offset, offset + SECTOR_SIZE_MODE1))

\* Mutant: the sync pattern is compared without its last byte.
detect_raw_mode_11_bytes(d) ==
    IF d.len < MIN_DETECT_LEN
    THEN FALSE
    ELSE Bytes(PySlice(d, 0, SYNC_SIZE - 1)) = SubSeq(sync_pattern, 1, SYNC_SIZE - 1)

\* Mutant: the length guard asks for the 12 bytes of the pattern only.
detect_raw_mode_len_12(d) ==
    IF d.len < SYNC_SIZE
    THEN FALSE
    ELSE Bytes(PySlice(d, 0, SYNC_SIZE)) = sync_pattern

detect_raw_mode(d) ==
    IF d.len < MIN_DETECT_LEN
    THEN FALSE
    ELSE Bytes(PySlice(d, 0, SYNC_SIZE)) = sync_pattern

\* The bytes detect_raw_mode compares: none on the early return, else data[:12].
detect_inspected(d) ==
    IF d.len < MIN_DETECT_LEN
    THEN 0
    ELSE ViewLen(PySlice(d, 0, SYNC_SIZE))

\* Mutant: the signature is compared without its last byte.
IsSaturn_15_bytes(sector_data) ==
    /\ Truthy(sector_data)
    /\ Bytes(ViewTake(sector_data.bytes, MAGIC_SIZE - 1))
         = SubSeq(SATURN_MAGIC, 1, MAGIC_SIZE - 1)

\* `sector_data and sector_data[:16] == SATURN_MAGIC`
IsSaturn(sector_data) ==
    /\ Truthy(sector_data)
    /\ Bytes(ViewTake(sector_data.bytes, MAGIC_SIZE)) = SATURN_MAGIC

\* sector_data[:256]
HeaderOf(sector_data) == Bytes(ViewTake(sector_data.bytes, HEADER_SIZE))

---------------------------------------------------------------------------
(* Text: bytes.decode('ascii', errors='replace'), str.rstrip,              *)
(* str.isprintable, as far as the code points the decoding yields          *)
(* (0..127 and U+FFFD) are concerned.                                      *)

\* U+FFFD, the replacement character of errors='replace'.
REPLACEMENT == 65533

\* Mutant: bytes.decode('latin-1'), every byte its own code point.
decode_latin1(b) == [i \in 1..SeqLen(b) |-> b[i]]

\* bytes.decode('ascii', errors='replace'): a byte below 0x80 decodes to the
\* code point of the same value, every other byte to U+FFFD.  It never
\* raises, so the except branches of the two extract functions are dead.
decode_ascii_replace(b) ==
    [i \in 1..SeqLen(b) |-> IF b[i] < 128 THEN b[i] ELSE REPLACEMENT]

\* str.isspace of one character: \t \n \v \f \r, 0x1C..0x1F and the space.
isspace(c) == c \in (9..13) \cup (28..32)

\* str.isprintable of one character: the ASCII range 0x20..0x7E, and U+FFFD
\* (category So); the control characters and 0x7F are not printable.
isprintable(c) == c \in (32..126) \/ c = REPLACEMENT

\* How many characters of s[:n] are left once its trailing whitespace
\* characters are dropped.
RECURSIVE rstrip_end(_, _)
rstrip_end(s, n) ==
    IF n > 0 /\ isspace(s[n]) THEN rstrip_end(s, n - 1) ELSE n

\* str.rstrip(): drops the trailing whitespace characters.
rstrip(s) == [i \in 1..rstrip_end(s, SeqLen(s)) |-> s[i]]

\* Mutant: a code already collected is not collected again.
RECURSIVE codes_loop_dedup(_, _, _)
codes_loop_dedup(peripheral_raw, i, codes) ==
    IF i > SeqLen(peripheral_raw)
    THEN codes
    ELSE LET char == peripheral_raw[i]
         IN  codes_loop_dedup(peripheral_raw, i + 1,
                 IF /\ char # 32 /\ char # 0 /\ isprintable(char)
                    /\ \A j \in 1..Len(codes) : codes[j] # char
                 THEN Append(codes, char)
                 ELSE codes)

\* The loop of extract_peripheral_codes, from character i (1-based) on.
RECURSIVE codes_loop(_, _, _)
codes_loop(peripheral_raw, i, codes) ==
    IF i > SeqLen(peripheral_raw)
    THEN codes
    ELSE LET char == peripheral_raw[i]
         IN  codes_loop(peripheral_raw, i + 1,
                        IF char # 32 /\ char # 0 /\ isprintable(char)
                        THEN Append(codes, char)
                        ELSE codes)

\* extract_peripheral_codes: (peripheral_raw, codes).
extract_peripheral_codes(header) ==
    LET peripheral_bytes == Sub(header, OFFSET_PERIPHERAL, 16)
        peripheral_raw == decode_ascii_replace(peripheral_bytes)
    IN  <<peripheral_raw, codes_loop(peripheral_raw, 1, <<>>)>>

\* extract_game_info: (game_title, version, product_number, area_codes).
extract_game_info(header) ==
    LET title_bytes == Sub(header, OFFSET_GAME_TITLE, 112)
        version_bytes == Sub(header, OFFSET_VERSION, 6)
        product_bytes == Sub(header, OFFSET_PRODUCT_NUM, 10)
        area_bytes == Sub(header, OFFSET_AREA_CODES, 16)
    IN  <<rstrip(decode_ascii_replace(title_bytes)),
          rstrip(decode_ascii_replace(version_bytes)),
          rstrip(decode_ascii_replace(product_bytes)),
          rstrip(decode_ascii_replace(area_bytes))>>

---------------------------------------------------------------------------
(* The peripheral catalog and get_human_readable_peripherals.              *)

\* PERIPHERAL_CODES, keyed by the code point of the catalog character.
PERIPHERAL_CODES ==
    (74 :> "Control Pad") @@            \* 'J'
    (65 :> "Analog Controller") @@      \* 'A'
    (69 :> "3D Controller") @@          \* 'E'
    (77 :> "Mouse") @@                  \* 'M'
    (75 :> "Keyboard") @@               \* 'K'
    (83 :> "Steering Controller") @@    \* 'S'
    (84 :> "Multitap") @@               \* 'T'
    (71 :> "Virtua Gun") @@             \* 'G'
    (87 :> "RAM Cartridge") @@          \* 'W'
    (67 :> "Link Cable (JP)") @@        \* 'C'
    (68 :> "DirectLink (US)") @@        \* 'D'
    (88 :> "NetLink Modem") @@          \* 'X'
    (81 :> "Pachinko Controller") @@    \* 'Q'
    (70 :> "Floppy Drive") @@           \* 'F'
    (82 :> "ROM Cartridge") @@          \* 'R'
    (80 :> "Video CD Card")             \* 'P'

\* The printable ASCII characters 0x20..0x7E, in order.  The backtick (0x60),
\* which a TLA+ string literal cannot hold, is written as its escape.
ASCII_PRINTABLE == <<
    " ", "!", "\"", "#", "$", "%", "&", "'",
    "(", ")", "*", "+", ",", "-", ".", "/",
    "0", "1", "2", "3", "4", "5", "6", "7",
    "8", "9", ":", ";", "<", "=", ">", "?",
    "@", "A", "B", "C", "D", "E", "F", "G",
    "H", "I", "J", "K", "L", "M", "N", "O",
    "P", "Q", "R", "S", "T", "U", "V", "W",
    "X", "Y", "Z", "[", "\\", "]", "^", "_",
    "\\x60", "a", "b", "c", "d", "e", "f", "g",
    "h", "i", "j", "k", "l", "m", "n", "o",
    "p", "q", "r", "s", "t", "u", "v", "w",
    "x", "y", "z", "{", "|", "}", "~">>

\* The text of one character in an f-string.  A TLA+ string holds ASCII
\* only: U+FFFD is written as the six characters of its escape, every other
\* character that is not printable ASCII as a backslash and an x.
Chr(c) ==
    IF c \in 32..126 THEN ASCII_PRINTABLE[c - 31]
    ELSE IF c = REPLACEMENT THEN "\\ufffd"
    ELSE "\\x"

\* Mutant: a code that is not in the catalog is dropped.
RECURSIVE describe_loop_known_only(_, _, _)
describe_loop_known_only(codes, i, descs) ==
    IF i > Len(codes)
    THEN descs
    ELSE describe_loop_known_only(codes, i + 1,
             IF codes[i] \in DOMAIN PERIPHERAL_CODES
             THEN Append(descs, PERIPHERAL_CODES[codes[i]])
             ELSE descs)

\* The loop of get_human_readable_peripherals, from code i (1-based) on.
RECURSIVE describe_loop(_, _, _)
describe_loop(codes, i, descs) ==
    IF i > Len(codes)
    THEN descs
    ELSE LET code == codes[i]
         IN  describe_loop(codes, i + 1,
                 IF code \in DOMAIN PERIPHERAL_CODES
                 THEN Append(descs, PERIPHERAL_CODES[code])
                 ELSE Append(descs, "Unknown(" \o Chr(code) \o ")"))

\* sep.join(parts)
RECURSIVE join(_, _)
join(sep, parts) ==
    IF Len(parts) = 0 THEN ""
    ELSE IF Len(parts) = 1 THEN parts[1]
    ELSE parts[1] \o sep \o join(sep, Tail(parts))

get_human_readable_peripherals(codes) ==
    join(", ", describe_loop(codes, 1, <<>>))

---------------------------------------------------------------------------
(* find_saturn_header.                                                     *)

\* Mutant: the loop does not return on the first match, the last one wins.
RECURSIVE scan_loop_last(_, _, _)
scan_loop_last(d, sec, raw_mode) ==
    IF sec >= SCAN_SECTORS
    THEN None
    ELSE LET sector_data == read_sector_data(d, sec, raw_mode)
             later == scan_loop_last(d, sec + 1, raw_mode)
         IN  IF later.some THEN later
             ELSE IF IsSaturn(sector_data) THEN Some(HeaderOf(sector_data))
             ELSE None

\* `for sector in range(16)` with the given raw_mode, from `sec` on: the
\* header of the first sector that matches, or None when the loop ends.
RECURSIVE scan_loop(_, _, _)
scan_loop(d, sec, raw_mode) ==
    IF sec >= SCAN_SECTORS
    THEN None
    ELSE LET sector_data == read_sector_data(d, sec, raw_mode)
         IN  IF IsSaturn(sector_data)
             THEN Some(HeaderOf(sector_data))
             ELSE scan_loop(d, sec + 1, raw_mode)

\* Mutant: no second pass over the buffer as Stripped.
find_saturn_header_no_fallback(d) ==
    LET raw == detect_raw_mode(d)
        first == scan_loop(d, 0, raw)
    IN  IF first.some
        THEN [header |-> first, is_raw |-> raw]
        ELSE [header |-> None, is_raw |-> FALSE]

\* find_saturn_header: the pair (header, is_raw) it returns.
find_saturn_header(d) ==
    LET raw == detect_raw_mode(d)
        sector_data == read_sector_data(d, 0, raw)
    IN  IF IsSaturn(sector_data)
        THEN [header |-> Some(HeaderOf(sector_data)), is_raw |-> raw]
        ELSE LET first == scan_loop(d, 0, raw)
             IN  IF first.some
                 THEN [header |-> first, is_raw |-> raw]
                 ELSE LET second == IF raw THEN scan_loop(d, 0, FALSE) ELSE None
                      IN  IF second.some
                          THEN [header |-> second, is_raw |-> FALSE]
                          ELSE [header |-> None, is_raw |-> FALSE]

---------------------------------------------------------------------------
(* The files the model scans.                                              *)

\* At most this many header images are laid into one file.
MaxSigs == 2
\* At most this many content bytes start each header field.
MaxField == 2

Patch(at, bytes) == [at |-> at, bytes |-> bytes]

\* A field of n bytes: the content c, cut to n bytes, then the pad byte.
Pad(c, n, pad) == [i \in 1..n |-> IF i <= Len(c) THEN c[i] ELSE pad]

\* The signature with its last byte changed: 15 of the 16 bytes match.
NearMagic == [SATURN_MAGIC EXCEPT ![16] = 33]

\* n spaces.
Spaces(n) == [i \in 1..n |-> 32]

\* The 256 bytes of a header image: the signature (or the near miss) at
\* 0x00, one byte at 0x10 that tells the images of a file apart, the product
\* number at 0x20, the version at 0x2A, the area codes at 0x40, the
\* peripheral field at 0x50 and the title at 0x60, each with its own content,
\* and spaces everywhere else.
ImageBytes(good, id, c, pad) ==
    (IF good THEN SATURN_MAGIC ELSE NearMagic)
    \o <<id>> \o Spaces(15)
    \o Pad(<<80>> \o c, 10, pad)
    \o Pad(<<86>> \o c, 6, pad)
    \o Spaces(16)
    \o Pad(c \o <<85>>, 16, pad)
    \o Pad(c, 16, pad)
    \o Pad(c, 112, pad)
    \o Spaces(48)

\* A header image at byte offset off.
HeaderImage(off, good, id, c, pad) ==
    << Patch(off, ImageBytes(good, id, c, pad)) >>

\* Where a header image may lie: the user data of Stripped and Raw sectors
\* 0, 1, 5 and 15, a near miss in sector 1 of either framing, and two places
\* no scan looks at (Stripped sector 16 and an offset inside sector 0).
Placements == <<
    [at |-> 0,                         good |-> TRUE],
    [at |-> 1 * 2048,                  good |-> TRUE],
    [at |-> 5 * 2048,                  good |-> TRUE],
    [at |-> 15 * 2048,                 good |-> TRUE],
    [at |-> 16,                        good |-> TRUE],
    [at |-> 1 * 2352 + 16,             good |-> TRUE],
    [at |-> 5 * 2352 + 16,             good |-> TRUE],
    [at |-> 15 * 2352 + 16,            good |-> TRUE],
    [at |-> 1 * 2048,                  good |-> FALSE],
    [at |-> 1 * 2352 + 16,             good |-> FALSE],
    [at |-> 16 * 2048,                 good |-> TRUE],
    [at |-> 1000,                      good |-> TRUE] >>

\* The lengths of the files: around detect_raw_mode's 16 bytes, around one
\* sector of either framing, one byte short of and exactly up to the end of
\* sector 5 of either framing, all sixteen Raw sectors, and around the
\* 65536 bytes scan_file reads.
Lens == {0, 12, 15, 16, 272, 2047, 2048, 2064, 4096, 12287, 12288,
         13823, 13824, 37344, 65536, 70000}

\* The first bytes of a file: nothing special, the sync pattern, the sync
\* pattern with its last byte wrong.
Prefixes == << <<>>, sync_pattern, [sync_pattern EXCEPT ![12] = 1] >>

\* 'JAMK'
JAMK == <<74, 65, 77, 75>>
\* 'JZ'
JZ == <<74, 90>>
\* 'JAEMKSTGWCDXQFRP': every character of the catalog, filling the field.
CATALOG16 == <<74, 65, 69, 77, 75, 83, 84, 71, 87, 67, 68, 88, 81, 70, 82, 80>>

\* The patches of the header images chosen by S, a set of indices into
\* Placements, from index i on; image i carries the id i.
RECURSIVE ImagePatches(_, _)
ImagePatches(S, i) ==
    IF i > Len(Placements) THEN <<>>
    ELSE (IF i \in S
          THEN HeaderImage(Placements[i].at, Placements[i].good, i, JAMK, 32)
          ELSE <<>>) \o ImagePatches(S, i + 1)

\* The sets of header images laid into a file of n bytes: at most MaxSigs
\* images, all of them starting inside the file.
ImageSets(n) ==
    {T \in SUBSET {i \in 1..Len(Placements) : Placements[i].at < n} :
        Cardinality(T) <= MaxSigs}

\* Files that differ in length, first bytes and where header images lie.
\* The first bytes are written last: they overwrite an image at offset 0.
LayoutFiles ==
    UNION { { [len |-> n, fill |-> 0,
               patches |-> ImagePatches(S, 1)
                           \o (IF Len(Prefixes[p]) = 0 THEN <<>>
                               ELSE <<Patch(0, Prefixes[p])>>)] :
              p \in 1..Len(Prefixes), S \in ImageSets(n) } : n \in Lens }

\* The bytes header fields are made of: 'J', 'Z', 'j', space, NUL, TAB, 0x1F,
\* DEL, 0x80, 0xFF.
FieldBytes == {74, 90, 106, 32, 0, 9, 31, 127, 128, 255}

\* The bytes that fill the rest of a field: space, NUL, 0x1F.
Pads == {32, 0, 31}

RECURSIVE SeqsUpTo(_, _)
SeqsUpTo(S, n) ==
    IF n = 0 THEN {<<>>}
    ELSE LET shorter == SeqsUpTo(S, n - 1)
         IN  shorter \cup {Append(q, x) : q \in shorter, x \in S}

\* One-sector Stripped images that differ in the content of their fields.
FieldFiles ==
    { [len |-> 2048, fill |-> 32,
       patches |-> HeaderImage(0, TRUE, 1, c, pad)] :
      c \in SeqsUpTo(FieldBytes, MaxField) \cup {JAMK, JZ, CATALOG16},
      pad \in Pads }

Files == LayoutFiles \cup FieldFiles

---------------------------------------------------------------------------
(* The state machine: scan_file, a direct call of find_saturn_header, and  *)
(* the report's call of get_human_readable_peripherals.                    *)

\* The buffer find_saturn_header is given: the first read_size bytes.
Data == [file EXCEPT !.len = read_size]

\* ScanResult.__init__
NewResult ==
    [success |-> FALSE, skipped |-> FALSE, skip_reason |-> "",
     peripheral_raw |-> <<>>, peripheral_codes |-> <<>>,
     game_title |-> <<>>, version |-> <<>>, product_number |-> <<>>,
     area_codes |-> <<>>]

Skipped(reason) == [NewResult EXCEPT !.skipped = TRUE, !.skip_reason = reason]

Init ==
    /\ pc = "idle"
    /\ file \in Files
    /\ caller = "none"
    /\ read_size = 0
    /\ is_raw = FALSE
    /\ inspected = 0
    /\ ret = [header |-> None, is_raw |-> FALSE]
    /\ result = NewResult
    /\ descriptions = ""

\* scan_file up to its call of find_saturn_header.  The path's extension,
\* whether it names a file, and whether open/read raise are inputs.
ScanFileOpen ==
    /\ pc = "idle"
    /\ \E ext \in {".iso", ".bin", ".cue"}, isfile \in BOOLEAN,
          io \in {"ok", "PermissionError", "OSError"} :
         IF ext \notin {".iso", ".bin"}
         THEN /\ result' = Skipped("Unsupported file type: " \o ext)
              /\ pc' = "done"
              /\ UNCHANGED <<caller, read_size>>
         ELSE IF ~isfile
         THEN /\ result' = Skipped("File not found")
              /\ pc' = "done"
              /\ UNCHANGED <<caller, read_size>>
         ELSE IF file.len < SECTOR_SIZE_MODE1
         THEN /\ result' = Skipped("File too small to be valid Saturn image")
              /\ pc' = "done"
              /\ UNCHANGED <<caller, read_size>>
         ELSE IF io = "PermissionError"
         THEN /\ result' = Skipped("Permission denied")
              /\ pc' = "done"
              /\ UNCHANGED <<caller, read_size>>
         ELSE IF io = "OSError"
         THEN /\ result' = Skipped("Error: OSError")
              /\ pc' = "done"
              /\ UNCHANGED <<caller, read_size>>
         ELSE /\ read_size' = Min(file.len, READ_CAP)
              /\ caller' = "scan_file"
              /\ pc' = "find"
              /\ UNCHANGED result
    /\ UNCHANGED <<file, is_raw, inspected, ret, descriptions>>

\* find_saturn_header called on the whole content, not through scan_file.
CallFind ==
    /\ pc = "idle"
    /\ read_size' = file.len
    /\ caller' = "direct"
    /\ pc' = "find"
    /\ UNCHANGED <<file, is_raw, inspected, ret, result, descriptions>>

\* find_saturn_header, from its first line to its return.
FindSaturnHeader ==
    /\ pc = "find"
    /\ is_raw' = detect_raw_mode(Data)
    /\ inspected' = detect_inspected(Data)
    /\ ret' = find_saturn_header(Data)
    /\ pc' = "returned"
    /\ UNCHANGED <<file, caller, read_size, result, descriptions>>

\* scan_file from the return of find_saturn_header to its own return.
ScanFileDecode ==
    /\ pc = "returned"
    /\ caller = "scan_file"
    /\ IF ~ret.header.some
       THEN result' = Skipped("No Saturn header found")
       ELSE LET p == extract_peripheral_codes(ret.header.bytes)
                g == extract_game_info(ret.header.bytes)
            IN  result' = [NewResult EXCEPT
                              !.peripheral_raw = p[1],
                              !.peripheral_codes = p[2],
                              !.game_title = g[1],
                              !.version = g[2],
                              !.product_number = g[3],
                              !.area_codes = g[4],
                              !.success = TRUE]
    /\ pc' = "done"
    /\ UNCHANGED <<file, caller, read_size, is_raw, inspected, ret, descriptions>>

\* print_results / write_results_to_file render a successful result.
Describe ==
    /\ pc = "done"
    /\ result.success
    /\ descriptions' = get_human_readable_peripherals(result.peripheral_codes)
    /\ pc' = "reported"
    /\ UNCHANGED <<file, caller, read_size, is_raw, inspected, ret,
                   result>>

Next ==
    \/ ScanFileOpen
    \/ CallFind
    \/ FindSaturnHeader
    \/ ScanFileDecode
    \/ Describe

Spec == Init /\ [][Next]_vars

---------------------------------------------------------------------------
(* Properties.  They read the buffer byte by byte and do not use the       *)
(* operators that model the functions under check.                         *)

\* find_saturn_header has returned.
Returned ==
    \/ pc = "returned"
    \/ pc \in {"done", "reported"} /\ caller = "scan_file"

\* The n bytes of the buffer from offset off on (off + n <= len).
BufBytes(off, n) == [i \in 1..n |-> ByteAt(Data, off + i - 1)]

\* The 16 signature bytes lie in the buffer at offset off.
SigAt(off) ==
    /\ off + 16 <= read_size
    /\ \A j \in 1..16 : ByteAt(Data, off + j - 1) = SATURN_MAGIC[j]

\* The first 12 bytes of the buffer are 00, FF x 10, 00.
SyncAtStart ==
    /\ read_size >= 12
    /\ ByteAt(Data, 0) = 0
    /\ \A j \in 1..10 : ByteAt(Data, j) = 255
    /\ ByteAt(Data, 11) = 0

\* The offset of the user data of sector k under a framing mode.
UserDataOffset(raw, k) == IF raw THEN 2352 * k + 16 ELSE 2048 * k

\* The 2048-byte user-data window of sector k lies wholly in the buffer.
WindowFits(raw, k) == UserDataOffset(raw, k) + 2048 <= read_size

\* Sector k is a candidate that matches under a framing mode.
Matches(raw, k) == WindowFits(raw, k) /\ SigAt(UserDataOffset(raw, k))

\* The sectors 0..15 that match under a framing mode.
Matching(raw) == {k \in 0..15 : Matches(raw, k)}

\* find_saturn_header returned the header of sector k, tagged raw.
LocatedAt(raw, k) ==
    /\ ret.header.some
    /\ ret.is_raw = raw
    /\ ret.header.bytes = BufBytes(UserDataOffset(raw, k), 256)

\* find_saturn_header returned (None, False).
Absent == ~ret.header.some /\ ret.is_raw = FALSE

\* The framing mode section 4.1 prescribes for the buffer.
FramingRaw == read_size >= 16 /\ SyncAtStart

\* C1: find_saturn_header returns the first match in the specified order:
\* the lowest sector in 0..15 that matches under the detected framing mode,
\* tagged with that mode; only if that mode is Raw and no sector matched, the
\* lowest sector in 0..15 that matches as Stripped, tagged Stripped;
\* otherwise absence.
C1_ScanOrder ==
    pc = "returned" =>
        IF Matching(FramingRaw) # {}
        THEN LocatedAt(FramingRaw, SetMin(Matching(FramingRaw)))
        ELSE IF FramingRaw /\ Matching(FALSE) # {}
        THEN LocatedAt(FALSE, SetMin(Matching(FALSE)))
        ELSE Absent

\* C1 witness: a buffer with the sync pattern at its start and the signature
\* only at Stripped sector 5 is located there, tagged Stripped.
C1_Witness ==
    /\ pc = "returned"
    /\ SyncAtStart
    /\ Matching(TRUE) = {}
    /\ Matching(FALSE) = {5}
    /\ LocatedAt(FALSE, 5)

\* C2 as claimed: absence exactly when the signature is at the user-data
\* start of none of the sectors 0..15, under either framing mode.
C2_AbsenceAsClaimed ==
    pc = "returned" =>
        (~ret.header.some <=>
            \A k \in 0..15 : /\ ~SigAt(UserDataOffset(TRUE, k))
                             /\ ~SigAt(UserDataOffset(FALSE, k)))

\* C2 as amended: absence exactly when no sector in 0..15 whose 2048-byte
\* window lies wholly in the buffer has the signature at its user-data start
\* under the detected framing mode nor, if that mode is Raw, as Stripped.
\* A signature that only the Raw interpretation finds in a buffer detected
\* as Stripped, or whose window is cut short, still yields absence; and a
\* buffer of 4096 zero bytes yields absence.
C2_Absence ==
    pc = "returned" =>
        /\ ~ret.header.some <=>
               /\ \A k \in 0..15 : ~Matches(FramingRaw, k)
               /\ FramingRaw => \A k \in 0..15 : ~Matches(FALSE, k)
        /\ ~ret.header.some => ret.is_raw = FALSE
        /\ (read_size = 4096 /\ \A i \in 0..4095 : ByteAt(Data, i) = 0)
               => ~ret.header.some

\* C2 witness: the buffer of 4096 zero bytes, scanned to absence.
C2_Witness ==
    /\ pc = "returned"
    /\ read_size = 4096
    /\ \A i \in 0..4095 : ByteAt(Data, i) = 0
    /\ Absent

\* C5 as claimed: Raw for a buffer whose first 12 bytes are the sync
\* pattern, Stripped for any other.
C5_FramingAsClaimed ==
    Returned => (is_raw <=> SyncAtStart)

\* C5 as amended: Raw for a buffer of at least 16 bytes whose first 12 bytes
\* are 00, FF x 10, 00; Stripped for every other buffer (another pattern in
\* its first 12 bytes, or fewer than 16 bytes).
C5_Framing ==
    Returned => (is_raw <=> (read_size >= 16 /\ SyncAtStart))

\* C5 witness: a buffer of at least 16 bytes with the sync pattern, found Raw.
C5_Witness ==
    /\ Returned
    /\ read_size >= 16
    /\ SyncAtStart
    /\ is_raw

\* C6: for a buffer shorter than 16 bytes detect_raw_mode returns Stripped;
\* for every buffer it returns a definite mode and compares no byte at or
\* beyond the end of the buffer.
C6_ShortBuffer ==
    Returned =>
        /\ read_size < 16 => ~is_raw
        /\ is_raw \in BOOLEAN
        /\ inspected <= read_size
        /\ inspected <= 12

\* C6 witness: a buffer of 12 to 15 bytes that starts with the sync pattern,
\* found Stripped.
C6_Witness ==
    /\ Returned
    /\ read_size \in 12..15
    /\ SyncAtStart
    /\ ~is_raw

\* C3 as claimed: every buffer with the signature at offset 0, followed by
\* its header bytes, yields bytes [0,256) tagged Stripped; every buffer that
\* starts with the sync pattern and holds a 2352-byte sector 0 with the
\* signature at offset 16 yields bytes [16,272) tagged Raw.
C3_RoundTripAsClaimed ==
    pc = "returned" =>
        /\ (SigAt(0) /\ read_size >= 256) => LocatedAt(FALSE, 0)
        /\ (SyncAtStart /\ SigAt(16) /\ read_size >= 2352) => LocatedAt(TRUE, 0)

\* C3 as amended: every buffer of at least 2048 bytes with the signature at
\* offset 0 yields bytes [0,256) tagged Stripped; every buffer of at least
\* 2064 bytes that starts with the sync pattern and has the signature at
\* offset 16 yields bytes [16,272) tagged Raw.
C3_RoundTrip ==
    pc = "returned" =>
        /\ (SigAt(0) /\ read_size >= 2048) => LocatedAt(FALSE, 0)
        /\ (SyncAtStart /\ SigAt(16) /\ read_size >= 2064) => LocatedAt(TRUE, 0)

\* C3 witness: a buffer of exactly one 2048-byte sector with the signature at
\* offset 0, located at sector 0 tagged Stripped.
C3_Witness ==
    /\ pc = "returned"
    /\ read_size = 2048
    /\ SigAt(0)
    /\ LocatedAt(FALSE, 0)

\* The Raw half of C3 happens too: sync pattern, signature at offset 16.
C3_WitnessRaw ==
    /\ pc = "returned"
    /\ SyncAtStart
    /\ SigAt(16)
    /\ LocatedAt(TRUE, 0)

\* C4: a header find_saturn_header returns is 256 bytes long, starts with
\* the signature and is the buffer's bytes [off, off+256) for the user-data
\* offset off of a sector in 0..15 under the returned tag; scan_file decodes
\* fields only from such a header, and on absence it decodes nothing.
C4_HeaderOnlyOnMatch ==
    Returned =>
        /\ (pc = "returned" /\ ret.header.some) =>
              /\ Len(ret.header.bytes) = 256
              /\ SubSeq(ret.header.bytes, 1, 16) = SATURN_MAGIC
              /\ \E k \in 0..15 :
                    /\ UserDataOffset(ret.is_raw, k) + 256 <= read_size
                    /\ SigAt(UserDataOffset(ret.is_raw, k))
                    /\ ret.header.bytes
                         = BufBytes(UserDataOffset(ret.is_raw, k), 256)
        /\ result.success => (caller = "scan_file" /\ ret.header.some)
        /\ (pc \in {"done", "reported"} /\ ~ret.header.some) =>
              result = Skipped("No Saturn header found")
        /\ pc = "reported" => result.success

\* C4 witness: scan_file has decoded the fields of a header found at Raw
\* sector 1.
C4_Witness ==
    /\ pc = "done"
    /\ result.success
    /\ ret.is_raw
    /\ ret.header.bytes = BufBytes(UserDataOffset(TRUE, 1), 256)
    /\ result.peripheral_codes = JAMK

\* C7: a sector whose 2048-byte window runs past the end of the buffer is
\* never the match, even with its signature and 256 header bytes inside the
\* buffer; the scan goes on to the Stripped pass, which finds a sector the
\* truncated Raw pass could not; and the scan ends with a header of 256
\* bytes or with (None, False).
C7_Truncation ==
    pc = "returned" =>
        /\ ret.header.some =>
              /\ \E k \in 0..15 : Matches(ret.is_raw, k) /\ LocatedAt(ret.is_raw, k)
              /\ \A i \in 1..256 : ret.header.bytes[i] \in 0..255
        /\ ~ret.header.some => ret = [header |-> None, is_raw |-> FALSE]
        /\ \A k \in 0..15 :
              (/\ ~WindowFits(is_raw, k)
               /\ \A j \in 0..15 : ~Matches(is_raw, j)
               /\ ~(is_raw /\ \E j \in 0..15 : Matches(FALSE, j)))
              => Absent
        /\ (is_raw /\ (\A j \in 0..15 : ~Matches(TRUE, j))
                   /\ (\E j \in 0..15 : Matches(FALSE, j)))
              => (ret.header.some /\ ~ret.is_raw)

\* C7 witness: the sync pattern at the start, Raw sector 5 with its signature
\* and all 256 header bytes in the buffer but its window one byte short: the
\* scan ends with absence.
C7_Witness ==
    /\ pc = "returned"
    /\ is_raw
    /\ SigAt(UserDataOffset(TRUE, 5))
    /\ UserDataOffset(TRUE, 5) + 256 <= read_size
    /\ UserDataOffset(TRUE, 5) + 2048 = read_size + 1
    /\ Absent

\* C7, the scan going on: Raw sector 1 is cut short, Stripped sector 1 is
\* whole and is found by the Stripped pass.
C7_WitnessFallback ==
    /\ pc = "returned"
    /\ is_raw
    /\ ~WindowFits(TRUE, 1)
    /\ LocatedAt(FALSE, 1)

\* scan_file has decoded the fields of a header.
Decoded == pc \in {"done", "reported"} /\ result.success

\* Byte i (0-based) of the located header.
HeaderByte(i) == ret.header.bytes[i + 1]

\* The character a header byte decodes to under C9 as amended.
CharOf(b) == IF b <= 127 THEN b ELSE 65533

\* The characters of the peripheral field that are codes: not a space, not
\* NUL, and printable (Python's str.isprintable: of the characters a field
\* decodes to, 0x20..0x7E and U+FFFD).
IsCode(c) == c # 32 /\ c # 0 /\ (c \in 32..126 \/ c = 65533)

\* The positions 1..16 of the peripheral field that hold a code.
CodePositions == {i \in 1..16 : IsCode(result.peripheral_raw[i])}

\* C8: peripheral_codes is the subsequence of the characters of the decoded
\* 16-byte field at 0x50 that are codes, in their order, duplicates kept, at
\* most 16 of them; 'JAMK' and 12 spaces give ['J','A','M','K'].
C8_PeripheralCodes ==
    Decoded =>
        /\ Len(result.peripheral_raw) = 16
        /\ \A i \in 1..16 : result.peripheral_raw[i] = CharOf(HeaderByte(80 + i - 1))
        /\ Len(result.peripheral_codes) = Cardinality(CodePositions)
        /\ Len(result.peripheral_codes) <= 16
        /\ \A i \in CodePositions :
              result.peripheral_codes[Cardinality({j \in CodePositions : j <= i})]
                  = result.peripheral_raw[i]
        /\ (/\ \A i \in 1..4 : HeaderByte(80 + i - 1) = JAMK[i]
            /\ \A i \in 5..16 : HeaderByte(80 + i - 1) = 32)
              => result.peripheral_codes = <<74, 65, 77, 75>>

\* C8 witness: a field with the same code twice among other bytes, decoded
\* to the two codes.
C8_Witness ==
    /\ Decoded
    /\ HeaderByte(80) = 74
    /\ HeaderByte(81) = 74
    /\ HeaderByte(82) = 0
    /\ result.peripheral_codes = <<74, 74>>

\* C8, the example: 'JAMK' and 12 spaces.
C8_WitnessJAMK ==
    /\ Decoded
    /\ \A i \in 1..16 : HeaderByte(80 + i - 1) = (IF i <= 4 THEN JAMK[i] ELSE 32)
    /\ result.peripheral_codes = JAMK

\* The four game-info fields: where each lies in the header and its value.
GameFields ==
    { [at |-> 96, n |-> 112, text |-> result.game_title],
      [at |-> 42, n |-> 6,   text |-> result.version],
      [at |-> 32, n |-> 10,  text |-> result.product_number],
      [at |-> 64, n |-> 16,  text |-> result.area_codes] }

\* C9 as claimed: in every decoded field a byte outside 0x20..0x7E becomes
\* the replacement character.
C9_ReplacementAsClaimed ==
    Decoded =>
        /\ \A i \in 1..16 :
              HeaderByte(80 + i - 1) \notin 32..126
                  => result.peripheral_raw[i] = 65533
        /\ \A f \in GameFields : \A i \in 1..Len(f.text) :
              HeaderByte(f.at + i - 1) \notin 32..126 => f.text[i] = 65533

\* The whitespace str.rstrip drops, of the characters a field decodes to.
Whitespace == {9, 10, 11, 12, 13, 28, 29, 30, 31, 32}

\* C9 as amended: in every decoded field a byte 0x80..0xFF becomes the
\* replacement character U+FFFD and a byte 0x00..0x7F, the control
\* characters 0x00..0x1F and 0x7F included, the character of the same code;
\* nothing raises; each of the four game-info fields is its decoded text
\* without its trailing whitespace, the rest kept as it is.
C9_Replacement ==
    Decoded =>
        /\ Len(result.peripheral_raw) = 16
        /\ \A i \in 1..16 : result.peripheral_raw[i] = CharOf(HeaderByte(80 + i - 1))
        /\ \A f \in GameFields :
              /\ Len(f.text) <= f.n
              /\ \A i \in 1..Len(f.text) : f.text[i] = CharOf(HeaderByte(f.at + i - 1))
              /\ \A i \in (Len(f.text) + 1)..f.n :
                    CharOf(HeaderByte(f.at + i - 1)) \in Whitespace
              /\ Len(f.text) > 0 => f.text[Len(f.text)] \notin Whitespace

\* C9 witness: a field of the bytes 0x80, 0x1F and spaces: the peripheral
\* text keeps 0x1F as it is, the title loses it with the trailing spaces.
C9_Witness ==
    /\ Decoded
    /\ HeaderByte(80) = 128
    /\ HeaderByte(81) = 31
    /\ HeaderByte(82) = 32
    /\ result.peripheral_raw[1] = 65533
    /\ result.peripheral_raw[2] = 31
    /\ result.game_title = <<65533>>

\* The catalog's sixteen characters: J A E M K S T G W C D X Q F R P.
CatalogChars == {74, 65, 69, 77, 75, 83, 84, 71, 87, 67, 68, 88, 81, 70, 82, 80}

\* The description of one code under C10.
DescriptionOf(c) ==
    IF c \in CatalogChars THEN PERIPHERAL_CODES[c]
    ELSE "Unknown(" \o Chr(c) \o ")"

\* The descriptions of the first n codes, each after the first preceded by
\* a comma and a space.
RECURSIVE Rendered(_, _)
Rendered(codes, n) ==
    IF n = 0 THEN ""
    ELSE IF n = 1 THEN DescriptionOf(codes[1])
    ELSE Rendered(codes, n - 1) \o ", " \o DescriptionOf(codes[n])

\* C10: get_human_readable_peripherals gives one description per code, in
\* order, duplicates kept, joined by ', ': the catalog name of each of the 16
\* catalog characters, 'Unknown(c)' for any other c.
C10_Describe ==
    pc = "reported" =>
        /\ DOMAIN PERIPHERAL_CODES = CatalogChars
        /\ descriptions
             = Rendered(result.peripheral_codes, Len(result.peripheral_codes))
        /\ result.peripheral_codes = <<74, 65, 77, 75>>
              => descriptions = "Control Pad, Analog Controller, Mouse, Keyboard"
        /\ result.peripheral_codes = <<74, 90>>
              => descriptions = "Control Pad, Unknown(Z)"
        /\ result.peripheral_codes = <<74, 74>>
              => descriptions = "Control Pad, Control Pad"
        /\ result.peripheral_codes = <<>> => descriptions = ""

\* C10 witness: the codes J, Z rendered.
C10_Witness ==
    /\ pc = "reported"
    /\ result.peripheral_codes = <<74, 90>>
    /\ descriptions = "Control Pad, Unknown(Z)"

\* C10, the whole catalog rendered.
C10_WitnessCatalog ==
    /\ pc = "reported"
    /\ result.peripheral_codes = CATALOG16
    /\ descriptions = "Control Pad, Analog Controller, 3D Controller, Mouse, Keyboard, Steering Controller, Multitap, Virtua Gun, RAM Cartridge, Link Cable (JP), DirectLink (US), NetLink Modem, Pachinko Controller, Floppy Drive, ROM Cartridge, Video CD Card"

====
